---- MODULE Spec2Model ----
(***************************************************************************)
(* Model of merkleredis.go: a Merkle tree node/root storage backed by a    *)
(* redis key-value store.  Byte slices are sequences of 0..255, Go strings *)
(* (redis keys and values) are sequences of one-character strings, a nil   *)
(* slice is the value Nil and a nil pointer the address NilAddr.           *)
(***************************************************************************)
EXTENDS Integers, Sequences, FiniteSets, TLC

VARIABLES db, storage, heap, last, rootLog, putLog

vars == <<db, storage, heap, last, rootLog, putLog>>

----------------------------------------------------------------------------
(* Bounds of the model *)

NumHandles == 2
MaxKeyLen == 1

(* Program constants *)

HeaderLen == 17
ElemBytesLen == 32
NodeTypeMiddle == 0
NodeTypeLeaf == 1
NodeTypeEmpty == 2

(* a Go string literal as a sequence of characters *)
Str(s) == [i \in 1..Len(s) |-> SubSeq(s, i, i)]

merkleTreeNodeBase == Str("mt_n_")
merkleTreeRootBase == Str("mt_r_")

----------------------------------------------------------------------------
(* Values *)

Nil == <<-1>>

Handles == 1..NumHandles

Prefixes == {Str("p1")}

NilAddr == -1
RetAddr == 0

Hash(b) == [i \in 1..ElemBytesLen |-> (b + i) % 256]

ZeroHash == [i \in 1..ElemBytesLen |-> 0]

HashA == Hash(16)
HashB == Hash(160)

Roots == {Hash(1), Hash(200)}

(* content keys: the empty key and the keys 0xab, 0xabab, ... *)
Keys == UNION {[1..n -> {171}] : n \in 0..MaxKeyLen}

OneKey == <<171>>

NilNode == [Type |-> -1, ChildL |-> Nil, ChildR |-> Nil, Entry |-> <<Nil, Nil>>]

LeafNode == [Type |-> NodeTypeLeaf, ChildL |-> Nil, ChildR |-> Nil, Entry |-> <<HashA, HashB>>]

(* the three kinds of node the tree library builds *)
Nodes ==
    { LeafNode,
      [Type |-> NodeTypeMiddle, ChildL |-> HashA, ChildR |-> HashB, Entry |-> <<Nil, Nil>>],
      [Type |-> NodeTypeEmpty, ChildL |-> Nil, ChildR |-> Nil, Entry |-> <<Nil, Nil>>] }

(* Errors: nil, merkletree sentinels, fmt.Errorf values, the redis client's *)
(* own failures, and storageError wrapping a cause.                        *)
NoErr == [kind |-> "nil", msg |-> "", cause |-> ""]
ErrNotFound == [kind |-> "ErrNotFound", msg |-> "", cause |-> ""]
ErrNodeBytesBadSize == [kind |-> "ErrNodeBytesBadSize", msg |-> "", cause |-> ""]
ErrClient == [kind |-> "client", msg |-> "", cause |-> ""]
Errorf(m) == [kind |-> "errorString", msg |-> m, cause |-> ""]

newErr(err, m) == [kind |-> "storageError", msg |-> m, cause |-> err.kind]

----------------------------------------------------------------------------
(* Byte and hex helpers *)

len(s) == IF s = Nil THEN 0 ELSE Len(s)

Zeros(n) == [i \in 1..n |-> 0]

(* copy(dst[pos:], src): copies min(len(dst)-pos, len(src)) bytes *)
copy(dst, pos, src) ==
    [i \in 1..Len(dst) |->
        IF i > pos /\ i - pos <= len(src) THEN src[i - pos] ELSE dst[i]]

(* append(a, b...) *)
append(a, b) == (IF a = Nil THEN <<>> ELSE a) \o (IF b = Nil THEN <<>> ELSE b)

HexChars == Str("0123456789abcdef")

EncodeToString(b) ==
    [i \in 1..(2 * len(b)) |->
        IF i % 2 = 1 THEN HexChars[(b[(i + 1) \div 2] \div 16) + 1]
        ELSE HexChars[(b[i \div 2] % 16) + 1]]

(* the value of a hex digit, upper or lower case; -1 for any other character *)
HexValues ==
    [c \in {"0", "1", "2", "3", "4", "5", "6", "7", "8", "9",
            "a", "b", "c", "d", "e", "f", "A", "B", "C", "D", "E", "F"} |->
        CASE c = "0" -> 0 [] c = "1" -> 1 [] c = "2" -> 2 [] c = "3" -> 3
          [] c = "4" -> 4 [] c = "5" -> 5 [] c = "6" -> 6 [] c = "7" -> 7
          [] c = "8" -> 8 [] c = "9" -> 9
          [] c \in {"a", "A"} -> 10 [] c \in {"b", "B"} -> 11
          [] c \in {"c", "C"} -> 12 [] c \in {"d", "D"} -> 13
          [] c \in {"e", "E"} -> 14 [] c \in {"f", "F"} -> 15]

FromHexChar(c) == IF c \in DOMAIN HexValues THEN HexValues[c] ELSE -1

(* hex.DecodeString: fails on odd length or on a character that is no hex digit *)
DecodeString(s) ==
    LET n == Len(s)
    IN  IF n % 2 = 1 \/ \E i \in 1..n : FromHexChar(s[i]) = -1
        THEN [err |-> Errorf("encoding/hex"), d |-> Nil]
        ELSE [err |-> NoErr,
              d |-> [i \in 1..(n \div 2) |->
                        16 * FromHexChar(s[2 * i - 1]) + FromHexChar(s[2 * i])]]

(* A uint32 is kept as two 16-bit limbs, hi * 65536 + lo, so that every     *)
(* 32-bit value a buffer can declare is represented exactly.               *)
readUint32LE(d, index) ==
    [hi |-> d[index + 4] * 256 + d[index + 3], lo |-> d[index + 2] * 256 + d[index + 1]]

(* int(u) for a uint32 u, on a platform whose int is 64 bits wide *)
int(u) == u.hi * 65536 + u.lo

(* uint32(n) for a length n >= 0: n modulo 2^32 *)
uint32(n) == (n % 65536) + 65536 * ((n \div 65536) % 65536)

writeUint32LE(d, index, value) ==
    [d EXCEPT ![index + 1] = value % 256,
              ![index + 2] = (value \div 256) % 256,
              ![index + 3] = (value \div 65536) % 256,
              ![index + 4] = (value \div 16777216) % 256]

----------------------------------------------------------------------------
(* Node codec *)

(* the test as an inequality: any sum other than len(d) is refused *)
SumExceeds_NotEqual(a, b, c, e, extra, n) ==
    LET loSum == a.lo + b.lo + c.lo + e.lo + extra
        H == a.hi + b.hi + c.hi + e.hi + (loSum \div 65536)
        L == loSum % 65536
    IN  H # n \div 65536 \/ L # n % 65536

(* the sum computed modulo 2^32, as if the lengths were added as uint32 *)
SumExceeds_Wraps32(a, b, c, e, extra, n) ==
    LET loSum == a.lo + b.lo + c.lo + e.lo + extra
        H == (a.hi + b.hi + c.hi + e.hi + (loSum \div 65536)) % 65536
        L == loSum % 65536
    IN  H > n \div 65536 \/ (H = n \div 65536 /\ L > n % 65536)

(* (keyLen + childLLen + childRLen + entryLen + 17) > len(d), evaluated on   *)
(* the limbs: the sum is H * 65536 + L with L < 65536                       *)
SumExceeds(a, b, c, e, extra, n) ==
    LET loSum == a.lo + b.lo + c.lo + e.lo + extra
        H == a.hi + b.hi + c.hi + e.hi + (loSum \div 65536)
        L == loSum % 65536
    IN  H > n \div 65536 \/ (H = n \div 65536 /\ L > n % 65536)

(* d[p:(p + keyLen)] ... d[p:(p + entryLen)]: every slice bound lies within *)
(* len(d).  A bound past len(d) is a slice outside the buffer: a panic when *)
(* it passes the capacity, bytes of the backing array otherwise.            *)
InBuffer(a, b, c, e, n) ==
    /\ a.hi = 0 /\ b.hi = 0 /\ c.hi = 0 /\ e.hi = 0
    /\ HeaderLen + a.lo + b.lo + c.lo + e.lo <= n

OutOfBuffer == [kind |-> "outOfBuffer", msg |-> "slice bounds out of range", cause |-> ""]

bytesToNodeItem(d) ==
    LET dLen == len(d)
        keyLen == readUint32LE(d, 1)
        childLLen == readUint32LE(d, 5)
        childRLen == readUint32LE(d, 9)
        entryLen == readUint32LE(d, 13)
        p1 == HeaderLen + int(keyLen)
        p2 == p1 + int(childLLen)
        p3 == p2 + int(childRLen)
    IN  IF dLen < HeaderLen
        THEN [err |-> Errorf("corrupted merkle node: invalid header"), item |-> Nil]
        ELSE IF SumExceeds(keyLen, childLLen, childRLen, entryLen, HeaderLen, len(d))
        THEN [err |-> Errorf("corrupted merkle node: overflow"), item |-> Nil]
        ELSE IF ~InBuffer(keyLen, childLLen, childRLen, entryLen, len(d))
        THEN [err |-> OutOfBuffer, item |-> Nil]
        ELSE [err |-> NoErr,
              item |-> [Type |-> d[1],
                        Key |-> SubSeq(d, HeaderLen + 1, p1),
                        ChildL |-> SubSeq(d, p1 + 1, p2),
                        ChildR |-> SubSeq(d, p2 + 1, p3),
                        Entry |-> SubSeq(d, p3 + 1, p3 + int(entryLen))]]

nodeItemToBytes(n) ==
    LET d0 == [Zeros(HeaderLen + len(n.Key) + len(n.ChildL) + len(n.ChildR) + len(n.Entry))
                  EXCEPT ![1] = n.Type]
        d1 == IF n.Key # Nil
              THEN copy(writeUint32LE(d0, 1, uint32(len(n.Key))), HeaderLen, n.Key)
              ELSE writeUint32LE(d0, 1, 0)
        pos1 == HeaderLen + len(n.Key)
        d2 == IF n.ChildL # Nil
              THEN copy(writeUint32LE(d1, 5, uint32(len(n.ChildL))), pos1, n.ChildL)
              ELSE writeUint32LE(d1, 5, 0)
        pos2 == pos1 + len(n.ChildL)
        d3 == IF n.ChildR # Nil
              THEN copy(writeUint32LE(d2, 9, uint32(len(n.ChildR))), pos2, n.ChildR)
              ELSE writeUint32LE(d2, 9, 0)
        pos3 == pos2 + len(n.ChildR)
    IN  IF n.Entry # Nil
        THEN copy(writeUint32LE(d3, 13, uint32(len(n.Entry))), pos3, n.ChildR)
        ELSE writeUint32LE(d3, 13, 0)

(* Node that rejects only an entry segment shorter than two hashes *)
Node_AcceptsLonger(item) ==
    LET childL == IF item.ChildL # Nil THEN copy(ZeroHash, 0, item.ChildL) ELSE Nil
        childR == IF item.ChildR # Nil THEN copy(ZeroHash, 0, item.ChildR) ELSE Nil
    IN  IF len(item.Entry) > 0
        THEN IF len(item.Entry) < 2 * ElemBytesLen
             THEN [err |-> ErrNodeBytesBadSize, node |-> NilNode]
             ELSE [err |-> NoErr,
                   node |-> [Type |-> item.Type, ChildL |-> childL, ChildR |-> childR,
                             Entry |-> <<copy(ZeroHash, 0, SubSeq(item.Entry, 1, 32)),
                                         copy(ZeroHash, 0, SubSeq(item.Entry, 33, 64))>>]]
        ELSE [err |-> NoErr,
              node |-> [Type |-> item.Type, ChildL |-> childL, ChildR |-> childR,
                        Entry |-> <<Nil, Nil>>]]

(* NodeItem.Node: a child or entry hash starts zeroed and receives a copy *)
Node(item) ==
    LET childL == IF item.ChildL # Nil THEN copy(ZeroHash, 0, item.ChildL) ELSE Nil
        childR == IF item.ChildR # Nil THEN copy(ZeroHash, 0, item.ChildR) ELSE Nil
    IN  IF len(item.Entry) > 0
        THEN IF len(item.Entry) # 2 * ElemBytesLen
             THEN [err |-> ErrNodeBytesBadSize, node |-> NilNode]
             ELSE [err |-> NoErr,
                   node |-> [Type |-> item.Type, ChildL |-> childL, ChildR |-> childR,
                             Entry |-> <<copy(ZeroHash, 0, SubSeq(item.Entry, 1, 32)),
                                         copy(ZeroHash, 0, SubSeq(item.Entry, 33, 64))>>]]
        ELSE [err |-> NoErr,
              node |-> [Type |-> item.Type, ChildL |-> childL, ChildR |-> childR,
                        Entry |-> <<Nil, Nil>>]]

----------------------------------------------------------------------------
(* The redis client: one call, one outcome chosen by the environment *)

RedisNil == [kind |-> "redis.Nil", msg |-> "", cause |-> ""]

GetOutcomes == {"reply", "error"}
SetOutcomes == {"ok", "error", "errorCommitted"}

(* db.Get: the value, redis.Nil when the key is absent, or a client failure *)
redisGet(store, key, out) ==
    IF out = "error" THEN [err |-> ErrClient, val |-> <<>>]
    ELSE IF key \notin DOMAIN store THEN [err |-> RedisNil, val |-> <<>>]
    ELSE [err |-> NoErr, val |-> store[key]]

(* db.Set with expiration 0: replaces the value of the key; a failed call   *)
(* either wrote nothing or wrote the value before the failure surfaced      *)
redisSet(store, key, value, out) ==
    [err |-> IF out = "ok" THEN NoErr ELSE ErrClient,
     db |-> IF out = "error" THEN store
            ELSE [k \in DOMAIN store \cup {key} |-> IF k = key THEN value ELSE store[k]]]

----------------------------------------------------------------------------
(* Storage.  An action binds the result of its store call and of its codec  *)
(* call once, as the single element of a set.                                *)

(* a handle whose root key is built on the base of the node keys *)
NewStorage_RootOnNodeBase(prefix) ==
    [nodeIdPrefix |-> merkleTreeNodeBase \o prefix \o "_",
     rootId |-> merkleTreeNodeBase \o prefix,
     currentRoot |-> NilAddr]

NewStorage(prefix) ==
    [nodeIdPrefix |-> merkleTreeNodeBase \o prefix \o "_",
     rootId |-> merkleTreeRootBase \o prefix,
     currentRoot |-> NilAddr]

(* a node id that leaves the content key out *)
getRedisNodeIdForMerkleKey_NoKey(s, key) == s.nodeIdPrefix

getRedisNodeIdForMerkleKey(s, key) == s.nodeIdPrefix \o EncodeToString(key)

Addrs == Handles \cup {RetAddr}

(* the value of the handle's cached root, Nil when there is none *)
CachedRoot(s, hp) == IF s.currentRoot = NilAddr THEN Nil ELSE hp[s.currentRoot]

(* The last operation: its handle and arguments, what it returned (node,    *)
(* hash, err, and ret, the address of a returned *Hash), the outcome the     *)
(* environment gave its store call (for a cancelled context: "error"), the   *)
(* number of store calls it made, and whether its write replaced a different *)
(* value held by the key.                                                    *)
Last(op, h, key, node, hash, out, err, ret, calls, replaced) ==
    [op |-> op, h |-> h, key |-> key, node |-> node, hash |-> hash,
     out |-> out, err |-> err, ret |-> ret, calls |-> calls, replaced |-> replaced]

Replaces(before, after, id) == id \in DOMAIN before /\ after[id] # before[id]

(* History of SetRoot calls per root key: the hash and the handle of the     *)
(* last call that succeeded (h = 0 once that handle has been replaced by a  *)
(* fresh one), whether that handle has had a failing SetRoot since, whether  *)
(* a failing SetRoot has reached the store since, and the hash of the last   *)
(* write that reached the store.                                             *)
NoRootLog == [hash |-> Nil, h |-> 0, ownFail |-> FALSE, lateWrite |-> FALSE, stored |-> Nil]

RootIds == {NewStorage(p).rootId : p \in Prefixes}

LogSetRoot(log, h, hash, out) ==
    IF out = "ok"
    THEN [hash |-> hash, h |-> h, ownFail |-> FALSE, lateWrite |-> FALSE, stored |-> hash]
    ELSE [log EXCEPT !.ownFail = @ \/ (h = log.h),
                     !.lateWrite = @ \/ (out = "errorCommitted"),
                     !.stored = IF out = "errorCommitted" THEN hash ELSE @]

(* History of Put calls: the (node-key prefix, content key) pairs of the     *)
(* Put calls whose write reached the store.                                  *)
LogPut(log, s, key, out) ==
    IF out = "error" THEN log ELSE log \cup {[prefix |-> s.nodeIdPrefix, key |-> key]}

Init ==
    /\ rootLog = [id \in RootIds |-> NoRootLog]
    /\ putLog = {}
    /\ db = [k \in {} |-> <<>>]
    /\ storage \in [Handles -> {NewStorage(p) : p \in Prefixes}]
    /\ heap = [a \in Addrs |-> ZeroHash]
    /\ last = Last("init", 0, Nil, NilNode, Nil, "none", NoErr, NilAddr, 0, FALSE)

(* a handle constructed fresh: new Storage value, no cached root *)
NewMerkleRedisStorage(h, prefix) ==
    /\ storage' = [storage EXCEPT ![h] = NewStorage(prefix)]
    /\ heap' = [heap EXCEPT ![h] = ZeroHash]
    /\ last' = Last("New", h, Nil, NilNode, Nil, "none", NoErr, NilAddr, 0, FALSE)
    /\ rootLog' = [id \in RootIds |->
                      IF rootLog[id].h = h THEN [rootLog[id] EXCEPT !.h = 0] ELSE rootLog[id]]
    /\ UNCHANGED <<db, putLog>>

GetResult(s, store, key, out) ==
    LET res == redisGet(store, getRedisNodeIdForMerkleKey(s, key), out)
        dec == DecodeString(res.val)
        it == bytesToNodeItem(dec.d)
    IN  IF res.err = RedisNil THEN [node |-> NilNode, err |-> ErrNotFound]
        ELSE IF res.err # NoErr THEN [node |-> NilNode, err |-> res.err]
        ELSE IF dec.err # NoErr THEN [node |-> NilNode, err |-> Errorf("corrupt key hex")]
        ELSE IF it.err # NoErr THEN [node |-> NilNode, err |-> it.err]
        ELSE Node(it.item)

Get(h, key, out) ==
    \E r \in {GetResult(storage[h], db, key, out)} :
        /\ last' = Last("Get", h, key, r.node, Nil, out, r.err, NilAddr, 1, FALSE)
        /\ UNCHANGED <<db, storage, heap, rootLog, putLog>>

PutItem(key, node) ==
    [Type |-> 0,
     Key |-> key,
     ChildL |-> IF node.ChildL # Nil THEN append(Nil, node.ChildL) ELSE Nil,
     ChildR |-> IF node.ChildR # Nil THEN append(Nil, node.ChildR) ELSE Nil,
     Entry |-> IF node.Entry[1] # Nil /\ node.Entry[2] # Nil
               THEN append(node.Entry[1], node.Entry[2]) ELSE Nil]

(* Put that returns nil whatever the write reports *)
PutResult_DropsError(s, store, key, node, out) ==
    [err |-> NoErr,
     db |-> redisSet(store, getRedisNodeIdForMerkleKey(s, key),
                     EncodeToString(nodeItemToBytes(PutItem(key, node))), out).db]

(* Put that keeps the value a key already holds *)
PutResult_KeepsExisting(s, store, key, node, out) ==
    IF getRedisNodeIdForMerkleKey(s, key) \in DOMAIN store
    THEN [err |-> IF out = "ok" THEN NoErr ELSE ErrClient, db |-> store]
    ELSE redisSet(store, getRedisNodeIdForMerkleKey(s, key),
                  EncodeToString(nodeItemToBytes(PutItem(key, node))), out)

PutResult(s, store, key, node, out) ==
    redisSet(store, getRedisNodeIdForMerkleKey(s, key),
             EncodeToString(nodeItemToBytes(PutItem(key, node))), out)

Put(h, key, node, out) ==
    \E r \in {PutResult(storage[h], db, key, node, out)} :
    \E id \in {getRedisNodeIdForMerkleKey(storage[h], key)} :
        /\ db' = r.db
        /\ last' = Last("Put", h, key, node, Nil, out, r.err, NilAddr, 1,
                        Replaces(db, r.db, id))
        /\ putLog' = LogPut(putLog, storage[h], key, out)
        /\ UNCHANGED <<storage, heap, rootLog>>

(* GetRoot, cache hit, returning the cached *Hash itself *)
GetRootCached_ReturnsCache(h, out) ==
    /\ last' = Last("GetRoot", h, Nil, NilNode, heap[storage[h].currentRoot], out, NoErr,
                    storage[h].currentRoot, 0, FALSE)
    /\ UNCHANGED <<db, storage, heap, rootLog, putLog>>

(* GetRoot, cache hit, that asks the store before it answers from the cache *)
GetRootCached_ReadsStore(h, out) ==
    \E res \in {redisGet(db, storage[h].rootId, out)} :
        IF res.err \notin {NoErr, RedisNil}
        THEN /\ last' = Last("GetRoot", h, Nil, NilNode, Nil, out, res.err, NilAddr, 1, FALSE)
             /\ UNCHANGED <<db, storage, heap, rootLog, putLog>>
        ELSE /\ heap' = [heap EXCEPT ![RetAddr] = copy(ZeroHash, 0, heap[storage[h].currentRoot])]
             /\ last' = Last("GetRoot", h, Nil, NilNode, heap'[RetAddr], out, NoErr, RetAddr, 1, FALSE)
             /\ UNCHANGED <<db, storage, rootLog, putLog>>

(* GetRoot, cache hit: the returned *Hash is the local root, a new object   *)
(* at RetAddr that receives a copy of the cached hash; no store access      *)
GetRootCached(h, out) ==
    /\ heap' = [heap EXCEPT ![RetAddr] = copy(ZeroHash, 0, heap[storage[h].currentRoot])]
    /\ last' = Last("GetRoot", h, Nil, NilNode, heap'[RetAddr], out, NoErr, RetAddr, 0, FALSE)
    /\ UNCHANGED <<db, storage, rootLog, putLog>>

(* GetRoot, cache miss, without the redis.Nil case: absence surfaces as the *)
(* client's own error                                                        *)
GetRootFromStore_NoNilCase(h, out) ==
    \E res \in {redisGet(db, storage[h].rootId, out)} :
    \E dec \in {DecodeString(res.val)} :
    \E cached \in {copy(ZeroHash, 0, dec.d)} :
        IF res.err # NoErr
        THEN /\ last' = Last("GetRoot", h, Nil, NilNode, Nil, out, res.err, NilAddr, 1, FALSE)
             /\ UNCHANGED <<db, storage, heap, rootLog, putLog>>
        ELSE IF dec.err # NoErr
        THEN /\ last' = Last("GetRoot", h, Nil, NilNode, Nil, out,
                             Errorf("corrupt root hex"), NilAddr, 1, FALSE)
             /\ UNCHANGED <<db, storage, heap, rootLog, putLog>>
        ELSE /\ storage' = [storage EXCEPT ![h].currentRoot = h]
             /\ heap' = [heap EXCEPT ![h] = cached, ![RetAddr] = copy(ZeroHash, 0, cached)]
             /\ last' = Last("GetRoot", h, Nil, NilNode, heap'[RetAddr], out, NoErr, RetAddr, 1, FALSE)
             /\ UNCHANGED <<db, rootLog, putLog>>

(* GetRoot, cache miss, that allocates the cached hash before it decodes    *)
(* the value                                                                 *)
GetRootFromStore_CachesOnError(h, out) ==
    \E res \in {redisGet(db, storage[h].rootId, out)} :
    \E dec \in {DecodeString(res.val)} :
    \E cached \in {copy(ZeroHash, 0, dec.d)} :
        IF res.err = RedisNil
        THEN /\ last' = Last("GetRoot", h, Nil, NilNode, Nil, out, ErrNotFound, NilAddr, 1, FALSE)
             /\ UNCHANGED <<db, storage, heap, rootLog, putLog>>
        ELSE IF res.err # NoErr
        THEN /\ last' = Last("GetRoot", h, Nil, NilNode, Nil, out, res.err, NilAddr, 1, FALSE)
             /\ UNCHANGED <<db, storage, heap, rootLog, putLog>>
        ELSE IF dec.err # NoErr
        THEN /\ storage' = [storage EXCEPT ![h].currentRoot = h]
             /\ heap' = [heap EXCEPT ![h] = ZeroHash]
             /\ last' = Last("GetRoot", h, Nil, NilNode, Nil, out,
                             Errorf("corrupt root hex"), NilAddr, 1, FALSE)
             /\ UNCHANGED <<db, rootLog, putLog>>
        ELSE /\ storage' = [storage EXCEPT ![h].currentRoot = h]
             /\ heap' = [heap EXCEPT ![h] = cached, ![RetAddr] = copy(ZeroHash, 0, cached)]
             /\ last' = Last("GetRoot", h, Nil, NilNode, heap'[RetAddr], out, NoErr, RetAddr, 1, FALSE)
             /\ UNCHANGED <<db, rootLog, putLog>>

(* GetRoot, cache miss: one read of the root key *)
GetRootFromStore(h, out) ==
    \E res \in {redisGet(db, storage[h].rootId, out)} :
    \E dec \in {DecodeString(res.val)} :
    \E cached \in {copy(ZeroHash, 0, dec.d)} :
        IF res.err = RedisNil
        THEN /\ last' = Last("GetRoot", h, Nil, NilNode, Nil, out, ErrNotFound, NilAddr, 1, FALSE)
             /\ UNCHANGED <<db, storage, heap, rootLog, putLog>>
        ELSE IF res.err # NoErr
        THEN /\ last' = Last("GetRoot", h, Nil, NilNode, Nil, out, res.err, NilAddr, 1, FALSE)
             /\ UNCHANGED <<db, storage, heap, rootLog, putLog>>
        ELSE IF dec.err # NoErr
        THEN /\ last' = Last("GetRoot", h, Nil, NilNode, Nil, out,
                             Errorf("corrupt root hex"), NilAddr, 1, FALSE)
             /\ UNCHANGED <<db, storage, heap, rootLog, putLog>>
        ELSE /\ storage' = [storage EXCEPT ![h].currentRoot = h]
             /\ heap' = [heap EXCEPT ![h] = cached, ![RetAddr] = copy(ZeroHash, 0, cached)]
             /\ last' = Last("GetRoot", h, Nil, NilNode, heap'[RetAddr], out, NoErr, RetAddr, 1, FALSE)
             /\ UNCHANGED <<db, rootLog, putLog>>

GetRoot(h, out) ==
    IF storage[h].currentRoot # NilAddr
    THEN GetRootCached(h, out)
    ELSE GetRootFromStore(h, out)

(* SetRoot that writes the store first and fills the cache only on success *)
SetRoot_WriteFirst(h, hash, out) ==
    LET s == storage[h] IN
    \E res \in {redisSet(db, s.rootId, EncodeToString(hash), out)} :
        /\ storage' = IF res.err = NoErr THEN [storage EXCEPT ![h].currentRoot = h] ELSE storage
        /\ heap' = IF res.err = NoErr THEN [heap EXCEPT ![h] = copy(ZeroHash, 0, hash)] ELSE heap
        /\ db' = res.db
        /\ last' = Last("SetRoot", h, Nil, NilNode, hash, out,
                        IF res.err # NoErr
                        THEN newErr(res.err, "failed to update current root hash")
                        ELSE NoErr,
                        NilAddr, 1, Replaces(db, res.db, s.rootId))
        /\ rootLog' = [rootLog EXCEPT ![s.rootId] = LogSetRoot(@, h, hash, out)]
        /\ UNCHANGED putLog

(* SetRoot that fills the cache only when it is empty *)
SetRoot_KeepsCache(h, hash, out) ==
    LET s == storage[h] IN
    \E res \in {redisSet(db, s.rootId, EncodeToString(hash), out)} :
        /\ storage' = [storage EXCEPT ![h].currentRoot = h]
        /\ heap' = IF s.currentRoot = NilAddr
                   THEN [heap EXCEPT ![h] = copy(ZeroHash, 0, hash)] ELSE heap
        /\ db' = res.db
        /\ last' = Last("SetRoot", h, Nil, NilNode, hash, out,
                        IF res.err # NoErr
                        THEN newErr(res.err, "failed to update current root hash")
                        ELSE NoErr,
                        NilAddr, 1, Replaces(db, res.db, s.rootId))
        /\ rootLog' = [rootLog EXCEPT ![s.rootId] = LogSetRoot(@, h, hash, out)]
        /\ UNCHANGED putLog

(* SetRoot on a cache shared by the handles of one root key *)
SetRoot_SharedCache(h, hash, out) ==
    LET s == storage[h] IN
    \E res \in {redisSet(db, s.rootId, EncodeToString(hash), out)} :
        /\ storage' = [g \in Handles |->
                          IF storage[g].rootId = s.rootId
                          THEN [storage[g] EXCEPT !.currentRoot = g] ELSE storage[g]]
        /\ heap' = [a \in Addrs |->
                       IF a \in Handles /\ storage[a].rootId = s.rootId
                       THEN copy(ZeroHash, 0, hash) ELSE heap[a]]
        /\ db' = res.db
        /\ last' = Last("SetRoot", h, Nil, NilNode, hash, out,
                        IF res.err # NoErr
                        THEN newErr(res.err, "failed to update current root hash")
                        ELSE NoErr,
                        NilAddr, 1, Replaces(db, res.db, s.rootId))
        /\ rootLog' = [rootLog EXCEPT ![s.rootId] = LogSetRoot(@, h, hash, out)]
        /\ UNCHANGED putLog

SetRoot(h, hash, out) ==
    LET s == storage[h]
        cur == IF s.currentRoot = NilAddr THEN ZeroHash ELSE heap[s.currentRoot]
    IN
    \E res \in {redisSet(db, s.rootId, EncodeToString(hash), out)} :
        /\ storage' = [storage EXCEPT ![h].currentRoot = h]
        /\ heap' = [heap EXCEPT ![h] = copy(cur, 0, hash)]
        /\ db' = res.db
        /\ last' = Last("SetRoot", h, Nil, NilNode, hash, out,
                        IF res.err # NoErr
                        THEN newErr(res.err, "failed to update current root hash")
                        ELSE NoErr,
                        NilAddr, 1, Replaces(db, res.db, s.rootId))
        /\ rootLog' = [rootLog EXCEPT ![s.rootId] = LogSetRoot(@, h, hash, out)]
        /\ UNCHANGED putLog

(* the caller overwrites the bytes of the hash GetRoot returned to it *)
CallerOverwrite(bytes) ==
    /\ last.op = "GetRoot"
    /\ last.ret # NilAddr
    /\ heap[last.ret] # bytes
    /\ heap' = [heap EXCEPT ![last.ret] = bytes]
    /\ last' = [last EXCEPT !.op = "Overwrite"]
    /\ UNCHANGED <<db, storage, rootLog, putLog>>

(* The node store alone: every key and node, both handles *)
NextNode ==
    \/ \E h \in Handles, key \in Keys, out \in GetOutcomes : Get(h, key, out)
    \/ \E h \in Handles, key \in Keys, node \in Nodes, out \in SetOutcomes : Put(h, key, node, out)

SpecNode == Init /\ [][NextNode]_vars

(* The root tracker alone *)
NextRoot ==
    \/ \E h \in Handles, p \in Prefixes : NewMerkleRedisStorage(h, p)
    \/ \E h \in Handles, out \in GetOutcomes : GetRoot(h, out)
    \/ \E h \in Handles, hash \in Roots, out \in SetOutcomes : SetRoot(h, hash, out)
    \/ \E bytes \in {ZeroHash} : CallerOverwrite(bytes)

SpecRoot == Init /\ [][NextRoot]_vars

(* All four operations together, on one key, one node and one root hash *)
Next ==
    \/ \E h \in Handles, p \in Prefixes : NewMerkleRedisStorage(h, p)
    \/ \E h \in Handles, key \in {OneKey}, out \in GetOutcomes : Get(h, key, out)
    \/ \E h \in Handles, key \in {OneKey}, node \in {LeafNode}, out \in SetOutcomes :
            Put(h, key, node, out)
    \/ \E h \in Handles, out \in GetOutcomes : GetRoot(h, out)
    \/ \E h \in Handles, hash \in {Hash(1)}, out \in SetOutcomes : SetRoot(h, hash, out)

Spec == Init /\ [][Next]_vars

TypeOK ==
    /\ \A k \in DOMAIN db : Len(db[k]) % 2 = 0
    /\ \A h \in Handles : storage[h].currentRoot \in {NilAddr, h}

----------------------------------------------------------------------------
(* Claims about the root tracker, checked under SpecRoot *)

HasPrefix(s, pre) == Len(s) >= Len(pre) /\ SubSeq(s, 1, Len(pre)) = pre

(* the keys of the store that lie in the root namespace *)
RootRecords == {k \in DOMAIN db : HasPrefix(k, merkleTreeRootBase)}

OneRootPerInstance == RootRecords \subseteq {NewStorage(p).rootId : p \in Prefixes}

LogOf(h) == rootLog[storage[h].rootId]

(* C1 as stated: after any sequence of SetRoot calls, GetRoot on the handle *)
(* that made the last successful SetRoot(h1) returns h1, GetRoot on a handle *)
(* with an empty cache whose store read is answered returns h1, and the      *)
(* store holds at most one root value per prefix.                            *)
C1_AsStated ==
    /\ OneRootPerInstance
    /\ (last.op = "GetRoot" /\ LogOf(last.h).hash # Nil) =>
          /\ last.h = LogOf(last.h).h =>
                (last.err = NoErr /\ last.hash = LogOf(last.h).hash)
          /\ (last.calls = 1 /\ last.out = "reply") =>
                (last.err = NoErr /\ last.hash = LogOf(last.h).hash)

(* C1 amended: GetRoot on the handle that made the last successful          *)
(* SetRoot(h1) returns h1 provided that handle has had no failing SetRoot    *)
(* since; GetRoot on a handle with an empty cache returns h1 provided its    *)
(* store read is answered and no failing SetRoot has reached the store since *)
(* h1 was written; the store holds at most one root value per prefix.        *)
C1_RootReadBack ==
    /\ OneRootPerInstance
    /\ (last.op = "GetRoot" /\ LogOf(last.h).hash # Nil) =>
          /\ (last.h = LogOf(last.h).h /\ ~LogOf(last.h).ownFail) =>
                (last.err = NoErr /\ last.hash = LogOf(last.h).hash)
          /\ (last.calls = 1 /\ last.out = "reply" /\ ~LogOf(last.h).lateWrite) =>
                (last.err = NoErr /\ last.hash = LogOf(last.h).hash)

(* a second handle with an empty cache reads the root another handle wrote  *)
C1_Witness ==
    /\ last.op = "GetRoot" /\ last.calls = 1 /\ last.err = NoErr
    /\ LogOf(last.h).h \notin {0, last.h}
    /\ last.hash = LogOf(last.h).hash
    /\ last.hash = Hash(200)
    /\ Cardinality(RootRecords) = 1

(* C5 as stated: when no root has ever been persisted under the handle's     *)
(* prefix, GetRoot returns NotFound unless the store call itself fails.      *)
C5_AsStated ==
    (last.op = "GetRoot" /\ storage[last.h].rootId \notin DOMAIN db /\ last.out # "error")
        => (last.err = ErrNotFound /\ last.hash = Nil)

(* C5 amended: when no root has ever been persisted under the prefix and the *)
(* handle's cache is empty (it has made no SetRoot call, not even a failing  *)
(* one), GetRoot returns NotFound, no hash, whenever the store answers.      *)
C5_NotFoundBeforeAnyRoot ==
    (last.op = "GetRoot" /\ storage[last.h].rootId \notin DOMAIN db
        /\ last.calls = 1 /\ last.out = "reply")
        => (last.err = ErrNotFound /\ last.hash = Nil /\ last.ret = NilAddr)

(* GetRoot answered NotFound although another handle holds a cached root     *)
(* from a SetRoot that never reached the store                               *)
C5_Witness ==
    /\ last.op = "GetRoot" /\ last.calls = 1 /\ last.err = ErrNotFound
    /\ storage[last.h].rootId \notin DOMAIN db
    /\ \E g \in Handles : g # last.h /\ storage[g].currentRoot # NilAddr

(* C7: a SetRoot(h) whose store write fails (nothing written) returns an     *)
(* error, leaves the handle's cached root equal to h and the store as it     *)
(* was; the next GetRoot on that handle returns h; and a GetRoot on a handle *)
(* with an empty cache returns the hash of the last write that reached the   *)
(* store, or NotFound when there was none.                                   *)
C7_Step ==
    /\ (last'.op = "SetRoot" /\ last'.out = "error") =>
          /\ last'.err.kind = "storageError"
          /\ CachedRoot(storage'[last'.h], heap') = last'.hash
          /\ db' = db
    /\ (last.op = "SetRoot" /\ last.out = "error" /\ last'.op = "GetRoot" /\ last'.h = last.h) =>
          (last'.err = NoErr /\ last'.hash = last.hash)
    /\ (last'.op = "GetRoot" /\ last'.calls = 1 /\ last'.out = "reply") =>
          IF rootLog'[storage'[last'.h].rootId].stored = Nil
          THEN last'.err = ErrNotFound
          ELSE last'.err = NoErr /\ last'.hash = rootLog'[storage'[last'.h].rootId].stored

C7_FailedSetRootLeavesCacheAhead == [][C7_Step]_vars

(* a fresh handle reads the previous durable root while the handle whose     *)
(* SetRoot failed holds a different hash in its cache                        *)
C7_Witness ==
    /\ last.op = "GetRoot" /\ last.calls = 1 /\ last.err = NoErr
    /\ LogOf(last.h).ownFail /\ ~LogOf(last.h).lateWrite
    /\ LogOf(last.h).h \notin {0, last.h}
    /\ last.hash = LogOf(last.h).hash
    /\ CachedRoot(storage[LogOf(last.h).h], heap) \notin {Nil, last.hash}

(* C9: the hash GetRoot returns, on the cache-hit and on the cache-miss path, *)
(* is an object of its own: when the caller overwrites its bytes no handle's  *)
(* cached root changes, and the next GetRoot on the handle returns the        *)
(* original value.                                                            *)
C9_Step ==
    /\ (last'.op = "GetRoot" /\ last'.ret # NilAddr) =>
          \A h \in Handles : storage'[h].currentRoot # last'.ret
    /\ last'.op = "Overwrite" =>
          \A h \in Handles : CachedRoot(storage'[h], heap') = CachedRoot(storage[h], heap)
    /\ (last.op = "Overwrite" /\ last'.op = "GetRoot" /\ last'.h = last.h) =>
          (last'.err = NoErr /\ last'.hash = last.hash)

C9_ReturnedRootIsCopy == [][C9_Step]_vars

(* the caller has overwritten a hash returned from the cache, and the cache  *)
(* still holds the value that was returned                                   *)
C9_Witness ==
    /\ last.op = "Overwrite" /\ last.calls = 0
    /\ heap[last.ret] # last.hash
    /\ CachedRoot(storage[last.h], heap) = last.hash

----------------------------------------------------------------------------
(* Claims about the node store, checked under SpecNode *)

SamePrefix(g, h) == storage[g].nodeIdPrefix = storage[h].nodeIdPrefix

(* a successful Put of last.key followed immediately by an answered Get of   *)
(* the same key under the same prefix                                        *)
PutThenGet ==
    /\ last.op = "Put" /\ last.err = NoErr
    /\ last'.op = "Get" /\ last'.out = "reply"
    /\ last'.key = last.key /\ SamePrefix(last'.h, last.h)

(* the NodeItem held in the store for the key of the last operation *)
StoredItem(store, lst) ==
    bytesToNodeItem(DecodeString(store[getRedisNodeIdForMerkleKey(storage[lst.h], lst.key)]).d).item

(* C2: a successful Put(k, n) followed immediately by Get(k) returns a node  *)
(* whose type equals the type of n.                                          *)
C2_TypeRoundTrip ==
    [][PutThenGet => (last'.err = NoErr /\ last'.node.Type = last.node.Type)]_vars

(* C3: a successful Put(k, n) stores a value whose key segment is k, and a   *)
(* Get(k) that follows immediately returns a node whose ChildL and ChildR    *)
(* equal those of n, an absent child being absent.                           *)
C3_ChildrenRoundTrip ==
    [][/\ (last'.op = "Put" /\ last'.err = NoErr) => StoredItem(db', last').Key = last'.key
       /\ PutThenGet => /\ last'.err = NoErr
                        /\ last'.node.ChildL = last.node.ChildL
                        /\ last'.node.ChildR = last.node.ChildR]_vars

(* C4: for a node with both entry values A and B, the entry segment Put      *)
(* writes is A followed by B, and a Get of the same key returns entry [A, B]. *)
C4_EntryRoundTrip ==
    [][/\ (last'.op = "Put" /\ last'.err = NoErr
              /\ last'.node.Entry[1] # Nil /\ last'.node.Entry[2] # Nil) =>
            StoredItem(db', last').Entry = last'.node.Entry[1] \o last'.node.Entry[2]
       /\ (PutThenGet /\ last.node.Entry[1] # Nil /\ last.node.Entry[2] # Nil) =>
            (last'.err = NoErr /\ last'.node.Entry = last.node.Entry)]_vars

(* C6: Get(k) returns NotFound, and no node, for every content key k for     *)
(* which no Put has reached the store under the handle's prefix, whatever    *)
(* other keys have been written; and a failure of the store call is returned *)
(* as the client's error, never as NotFound.                                 *)
C6_NotFoundForUnwrittenKey ==
    last.op = "Get" =>
        /\ ([prefix |-> storage[last.h].nodeIdPrefix, key |-> last.key] \notin putLog
                /\ last.out = "reply") =>
              (last.err = ErrNotFound /\ last.node = NilNode)
        /\ last.out = "error" => (last.err = ErrClient /\ last.node = NilNode)

(* Get answered NotFound for a key never written while another key of the    *)
(* same prefix is in the store                                               *)
C6_Witness ==
    /\ last.op = "Get" /\ last.out = "reply" /\ last.err = ErrNotFound
    /\ \E e \in putLog : e.prefix = storage[last.h].nodeIdPrefix /\ e.key # last.key

(* C10: a successful Put(k, n) leaves at the storage key of k exactly the    *)
(* hex encoding of the encoded node, whatever the key held before, and       *)
(* leaves every other key as it was; repeating the same Put(k, n) leaves the *)
(* store unchanged; a Get changes nothing in the store.                      *)
C10_Step ==
    /\ (last'.op = "Put" /\ last'.err = NoErr) =>
          \A id \in {getRedisNodeIdForMerkleKey(storage[last'.h], last'.key)} :
          \A item \in {PutItem(last'.key, last'.node)} :
              /\ DOMAIN db' = DOMAIN db \cup {id}
              /\ db'[id] = EncodeToString(nodeItemToBytes(item))
              /\ \A k \in DOMAIN db \ {id} : db'[k] = db[k]
    /\ (last.op = "Put" /\ last.err = NoErr /\ last'.op = "Put" /\ last'.err = NoErr
          /\ last'.key = last.key /\ last'.node = last.node /\ SamePrefix(last'.h, last.h)) =>
          db' = db
    /\ last'.op = "Get" => db' = db

C10_LastWriteWins == [][C10_Step]_vars

(* a successful Put has replaced a different value held by its key *)
C10_Witness ==
    /\ last.op = "Put" /\ last.err = NoErr
    /\ last.replaced
    /\ db[getRedisNodeIdForMerkleKey(storage[last.h], last.key)]
          = EncodeToString(nodeItemToBytes(PutItem(last.key, last.node)))

----------------------------------------------------------------------------
(* Claims about all four operations, checked under Spec *)

(* the operation ran under a cancelled context and the store committed       *)
(* nothing: its store call, if it made one, failed without writing           *)
Cancelled(l) == l.op \in {"Get", "Put", "GetRoot", "SetRoot"} /\ l.out = "error"

Caches(st, hp) == [h \in Handles |-> CachedRoot(st[h], hp)]

(* C8 as stated: under a cancelled context with nothing committed, each of   *)
(* Get, Put, GetRoot and SetRoot returns an error and leaves the stored      *)
(* nodes, the stored root and every cached root as they were.                *)
C8_AsStated ==
    [][Cancelled(last') =>
          /\ last'.err # NoErr
          /\ db' = db
          /\ Caches(storage', heap') = Caches(storage, heap)]_vars

(* C8 amended: under a cancelled context with nothing committed, no          *)
(* operation changes the store; Get, Put and a GetRoot on an empty cache     *)
(* return an error and change no cached root; a GetRoot on a populated cache *)
(* makes no store call, returns the cached root without error and changes no *)
(* cached root; SetRoot(h) returns an error and has set the cached root of   *)
(* its handle, and of no other, to h.                                        *)
C8_Step ==
    Cancelled(last') =>
        /\ db' = db
        /\ last'.op \in {"Get", "Put"} =>
              (last'.err # NoErr /\ Caches(storage', heap') = Caches(storage, heap))
        /\ last'.op = "GetRoot" =>
              /\ Caches(storage', heap') = Caches(storage, heap)
              /\ IF CachedRoot(storage[last'.h], heap) = Nil
                 THEN last'.err # NoErr /\ last'.hash = Nil
                 ELSE /\ last'.err = NoErr /\ last'.calls = 0
                      /\ last'.hash = CachedRoot(storage[last'.h], heap)
        /\ last'.op = "SetRoot" =>
              /\ last'.err # NoErr
              /\ Caches(storage', heap')
                    = [Caches(storage, heap) EXCEPT ![last'.h] = last'.hash]

C8_CancelledEffects == [][C8_Step]_vars

(* a cancelled SetRoot has filled the cache of its handle while the store,   *)
(* which holds a node, holds no root                                         *)
C8_Witness ==
    /\ last.op = "SetRoot" /\ last.out = "error" /\ last.err # NoErr
    /\ CachedRoot(storage[last.h], heap) = last.hash
    /\ storage[last.h].rootId \notin DOMAIN db
    /\ putLog # {}

----------------------------------------------------------------------------
(* The decoder on values of the store that no Put of this program wrote:    *)
(* the store is shared, and Get decodes whatever value its key holds.       *)

(* a uint32 length field of a header, little-endian *)
Le(n) == <<n % 256, (n \div 256) % 256, 0, 0>>

MaxU32 == <<255, 255, 255, 255>>
Pow31 == <<0, 0, 0, 128>>

Header(t, k, l, r, e) == <<t>> \o k \o l \o r \o e

Body(n) == [i \in 1..n |-> i % 256]

(* buffers shorter than a header, and headers declaring small, exact, short *)
(* and 32-bit-wide segment lengths over bodies of several lengths           *)
Buffers ==
    {Zeros(n) : n \in {0, 1, HeaderLen - 1}}
    \cup {Header(NodeTypeLeaf, k, l, r, e) \o Body(n) :
            k \in {Le(0), Le(1), MaxU32},
            l \in {Le(0), Le(ElemBytesLen)},
            r \in {Le(0), Pow31},
            e \in {Le(0), Le(1), Le(2 * ElemBytesLen), Le(2 * ElemBytesLen + 1), MaxU32},
            n \in {0, 1, 2 * ElemBytesLen, 2 * ElemBytesLen + 1, 3 * ElemBytesLen + 1}}

(* another client of the store sets the node key of a content key to the    *)
(* hex encoding of a buffer                                                  *)
ForeignSet(prefix, key, d) ==
    \E id \in {getRedisNodeIdForMerkleKey(NewStorage(prefix), key)} :
    \E r \in {redisSet(db, id, EncodeToString(d), "ok")} :
        /\ db' = r.db
        /\ last' = Last("ForeignSet", 0, key, NilNode, Nil, "none", NoErr, NilAddr, 0,
                        Replaces(db, r.db, id))
        /\ UNCHANGED <<storage, heap, rootLog, putLog>>

NextCodec ==
    \/ \E p \in Prefixes, d \in Buffers : ForeignSet(p, OneKey, d)
    \/ \E h \in Handles, out \in GetOutcomes : Get(h, OneKey, out)

SpecCodec == Init /\ [][NextCodec]_vars

(* the buffer Get has just decoded: the hex-decoded value of its node key *)
GotValue == last.op = "Get" /\ last.out = "reply" /\ last.err # ErrNotFound

GotBuffer == DecodeString(db[getRedisNodeIdForMerkleKey(storage[last.h], last.key)]).d

(* the header's declaration read field by field: every length below 2^16    *)
(* and their sum plus the header size compared with the buffer length       *)
FieldSmall(d, i) == d[i + 3] = 0 /\ d[i + 4] = 0
FieldValue(d, i) == d[i + 1] + 256 * d[i + 2]
DeclaredSmall(d) == \A i \in {1, 5, 9, 13} : FieldSmall(d, i)
DeclaredTotal(d) ==
    HeaderLen + FieldValue(d, 1) + FieldValue(d, 5) + FieldValue(d, 9) + FieldValue(d, 13)
DeclaredFits(d) == Len(d) >= HeaderLen /\ DeclaredSmall(d) /\ DeclaredTotal(d) <= Len(d)
DeclaredExact(d) == Len(d) >= HeaderLen /\ DeclaredSmall(d) /\ DeclaredTotal(d) = Len(d)

(* Get went past the decoder: it returned a node or failed reconstructing it *)
Decoded == last.err \in {NoErr, ErrNodeBytesBadSize}

(* C11 as stated: decoding succeeds only when the declared segment lengths   *)
(* plus the header size equal the buffer length, and fails for every buffer  *)
(* where they differ.                                                        *)
C11_AsStated ==
    GotValue =>
        \A d \in {GotBuffer} :
            /\ Decoded <=> DeclaredExact(d)
            /\ bytesToNodeItem(d).err = NoErr <=> DeclaredExact(d)

(* C11 amended: decoding succeeds exactly when the buffer holds a header and *)
(* the declared segment lengths plus the header size are at most the buffer  *)
(* length; bytes after the last segment are ignored, and the segments are    *)
(* the declared ranges in the order key, left child, right child, entry.     *)
C11_DecodeIffDeclaredFits ==
    GotValue =>
        \A d \in {GotBuffer} :
        \A r \in {bytesToNodeItem(d)} :
            /\ Decoded <=> DeclaredFits(d)
            /\ r.err = NoErr <=> DeclaredFits(d)
            /\ r.err = NoErr =>
                  /\ r.item.Type = d[1]
                  /\ r.item.Key \o r.item.ChildL \o r.item.ChildR \o r.item.Entry
                        = SubSeq(d, HeaderLen + 1, DeclaredTotal(d))
                  /\ Len(r.item.Key) = FieldValue(d, 1)
                  /\ Len(r.item.ChildL) = FieldValue(d, 5)
                  /\ Len(r.item.ChildR) = FieldValue(d, 9)
                  /\ Len(r.item.Entry) = FieldValue(d, 13)

(* Get decoded a buffer that is longer than its header declares *)
C11_Witness ==
    /\ GotValue /\ last.err = NoErr
    /\ DeclaredFits(GotBuffer) /\ ~DeclaredExact(GotBuffer)
    /\ FieldValue(GotBuffer, 13) = 2 * ElemBytesLen

ReadField(d, i) == SubSeq(d, i + 1, i + 4)

(* C12: decoding a buffer shorter than 17 bytes fails with the invalid       *)
(* header error; decoding a buffer of at least 17 bytes whose declared       *)
(* segment lengths, each any 32-bit value, plus 17 exceed the buffer length  *)
(* fails with the overflow error; Get returns that error and no node; and no *)
(* decoding slices a segment outside the buffer.                             *)
C12_ShortOrOverflowRejected ==
    GotValue =>
        \A d \in {GotBuffer} :
        \A r \in {bytesToNodeItem(d)} :
            /\ Len(d) < HeaderLen =>
                  /\ r.err = Errorf("corrupted merkle node: invalid header")
                  /\ last.err = r.err /\ last.node = NilNode
            /\ (Len(d) >= HeaderLen /\ ~DeclaredFits(d)) =>
                  /\ r.err = Errorf("corrupted merkle node: overflow")
                  /\ last.err = r.err /\ last.node = NilNode
            /\ r.err # OutOfBuffer
            /\ last.err # OutOfBuffer

(* Get rejected a header whose declared lengths sum to 0 modulo 2^32 *)
C12_Witness ==
    /\ GotValue /\ last.err = Errorf("corrupted merkle node: overflow")
    /\ ReadField(GotBuffer, 1) = MaxU32
    /\ ReadField(GotBuffer, 5) = Le(0)
    /\ ReadField(GotBuffer, 9) = Le(0)
    /\ ReadField(GotBuffer, 13) = Le(1)

(* Get has decoded a stored value whose type byte is Leaf *)
GotLeaf(r) == GotValue /\ r.err = NoErr /\ r.item.Type = NodeTypeLeaf

(* C13 as stated: Get of a stored value that decodes to a leaf whose entry   *)
(* segment length is anything other than 64, a length of 0 included, fails   *)
(* with BadEntrySize and returns no node.                                    *)
C13_AsStated ==
    GotValue =>
        \A r \in {bytesToNodeItem(GotBuffer)} :
            (GotLeaf(r) /\ Len(r.item.Entry) # 2 * ElemBytesLen) =>
                (last.err = ErrNodeBytesBadSize /\ last.node = NilNode)

(* C13 amended: Get of a stored value that decodes to a leaf fails with      *)
(* BadEntrySize and returns no node when the entry segment length is neither *)
(* 0 nor 64; with length 0 it returns a leaf without entry values and no     *)
(* error; with length 64 it returns the two halves of the segment.           *)
C13_BadEntrySize ==
    GotValue =>
        \A r \in {bytesToNodeItem(GotBuffer)} :
            GotLeaf(r) =>
                /\ Len(r.item.Entry) \notin {0, 2 * ElemBytesLen} =>
                      (last.err = ErrNodeBytesBadSize /\ last.node = NilNode)
                /\ Len(r.item.Entry) = 0 =>
                      /\ last.err = NoErr
                      /\ last.node.Type = NodeTypeLeaf
                      /\ last.node.Entry = <<Nil, Nil>>
                /\ Len(r.item.Entry) = 2 * ElemBytesLen =>
                      /\ last.err = NoErr
                      /\ last.node.Type = NodeTypeLeaf
                      /\ last.node.Entry[1] \o last.node.Entry[2] = r.item.Entry

(* Get failed with BadEntrySize on a leaf whose entry segment is one byte    *)
(* longer than two hashes                                                    *)
C13_Witness ==
    /\ GotValue /\ last.err = ErrNodeBytesBadSize /\ last.node = NilNode
    /\ bytesToNodeItem(GotBuffer).item.Type = NodeTypeLeaf
    /\ Len(bytesToNodeItem(GotBuffer).item.Entry) = 2 * ElemBytesLen + 1

----------------------------------------------------------------------------
(* Claims about the caches of several handles, checked under SpecRoot *)

(* C14: a SetRoot on one handle changes the cached root of no other handle;  *)
(* a GetRoot on a handle whose cache holds a root makes no store call and    *)
(* returns that root whatever the store holds, so it never returns a root    *)
(* another handle wrote since; and the cached root of a handle changes only  *)
(* by its own SetRoot, by its own GetRoot on an empty cache, or by the       *)
(* handle being constructed afresh.                                          *)
C14_Step ==
    /\ last'.op = "SetRoot" =>
          \A g \in Handles \ {last'.h} :
              CachedRoot(storage'[g], heap') = CachedRoot(storage[g], heap)
    /\ (last'.op = "GetRoot" /\ storage[last'.h].currentRoot # NilAddr) =>
          /\ last'.calls = 0 /\ last'.err = NoErr
          /\ last'.hash = CachedRoot(storage[last'.h], heap)
          /\ CachedRoot(storage'[last'.h], heap') = CachedRoot(storage[last'.h], heap)
    /\ \A g \in Handles :
          CachedRoot(storage'[g], heap') # CachedRoot(storage[g], heap) =>
              /\ last'.h = g
              /\ \/ last'.op = "SetRoot"
                 \/ last'.op = "New"
                 \/ last'.op = "GetRoot" /\ last'.calls = 1
                       /\ storage[g].currentRoot = NilAddr

C14_StaleRootUntilOwnWrite == [][C14_Step]_vars

(* GetRoot on A returned its cached h1 although B's SetRoot(h2) succeeded    *)
(* after A's and the store holds h2                                          *)
C14_Witness ==
    /\ last.op = "GetRoot" /\ last.calls = 0 /\ last.err = NoErr
    /\ LogOf(last.h).h \notin {0, last.h}
    /\ ~LogOf(last.h).lateWrite
    /\ LogOf(last.h).hash # last.hash
    /\ storage[last.h].rootId \in DOMAIN db
    /\ db[storage[last.h].rootId] = EncodeToString(LogOf(last.h).hash)
    /\ db[storage[last.h].rootId] # EncodeToString(last.hash)

----------------------------------------------------------------------------
(* A caller that follows the tree library's write order, with crashes *)

(* the caller updates the root to a hash only right after its Put of the     *)
(* node with that content key has succeeded on the same handle; any error    *)
(* or crash before that abandons the mutation                                *)
MutationSetRoot(h, hash, out) ==
    /\ last.op = "Put" /\ last.err = NoErr /\ last.h = h /\ last.key = hash
    /\ SetRoot(h, hash, out)

(* the one process that owns the tree *)
Writer == 1

(* New is a crash of the writer followed by a restart with a fresh handle *)
NextTree ==
    \/ \E p \in Prefixes : NewMerkleRedisStorage(Writer, p)
    \/ \E key \in Roots, out \in SetOutcomes : Put(Writer, key, LeafNode, out)
    \/ \E hash \in Roots, out \in SetOutcomes : MutationSetRoot(Writer, hash, out)
    \/ \E out \in GetOutcomes : GetRoot(Writer, out)

SpecTree == Init /\ [][NextTree]_vars

(* the node key, under the prefix of handle h, of the root the store holds *)
PersistedRootNodeId(h) ==
    getRedisNodeIdForMerkleKey(storage[h], DecodeString(db[storage[h].rootId]).d)

(* C15: when every SetRoot follows a successful Put of the node of the new   *)
(* root, then in every reachable state, after a crash between any two store  *)
(* writes and a restart with a fresh handle included, the persisted root is  *)
(* absent or is the content key of a node present in the store; a root that  *)
(* a handle reads from the store is the key of a present node.               *)
C15_PersistedRootHasNode ==
    /\ \A h \in Handles :
          storage[h].rootId \in DOMAIN db => PersistedRootNodeId(h) \in DOMAIN db
    /\ (last.op = "GetRoot" /\ last.calls = 1 /\ last.err = NoErr) =>
          getRedisNodeIdForMerkleKey(storage[last.h], last.hash) \in DOMAIN db

(* a fresh handle after a crash between the Put of a new root's node and the *)
(* SetRoot: the store holds that node, unreachable from the persisted root   *)
C15_Witness ==
    /\ last.op = "New"
    /\ storage[last.h].rootId \in DOMAIN db
    /\ db[storage[last.h].rootId] = EncodeToString(Hash(1))
    /\ getRedisNodeIdForMerkleKey(storage[last.h], Hash(200)) \in DOMAIN db
    /\ PersistedRootNodeId(last.h) \in DOMAIN db

----------------------------------------------------------------------------
(* Claims about the errors of all four operations, checked under Spec *)

(* the operation made a store call and the client failed it *)
ClientFailed(l) ==
    /\ l.op \in {"Get", "Put", "GetRoot", "SetRoot"}
    /\ l.calls = 1
    /\ l.out \in {"error", "errorCommitted"}

(* a StoreError: the client's error wrapped with a context string *)
IsStoreError(e) == e.kind = "storageError" /\ e.cause = ErrClient.kind /\ e.msg # ""

(* C16: every failure of the key-value client other than key absence, in     *)
(* Put, Get, GetRoot and SetRoot alike, is returned as a StoreError that     *)
(* wraps the client's error and carries a context string; in particular Put  *)
(* returns the write error wrapped.                                          *)
C16_ClientErrorsWrapped ==
    ClientFailed(last) => IsStoreError(last.err)

----------------------------------------------------------------------------
(* All four operations on a store that other clients write as well *)

(* values another client leaves at a root key: a different root, and a text *)
(* that is no hex string                                                     *)
ForeignRootValues == {EncodeToString(Hash(200)), Str("zz")}

ForeignSetRoot(prefix, value) ==
    \E id \in {NewStorage(prefix).rootId} :
    \E r \in {redisSet(db, id, value, "ok")} :
        /\ db' = r.db
        /\ last' = Last("ForeignSet", 0, Nil, NilNode, Nil, "none", NoErr, NilAddr, 0,
                        Replaces(db, r.db, id))
        /\ UNCHANGED <<storage, heap, rootLog, putLog>>

(* another client removes the root key *)
ForeignDelRoot(prefix) ==
    \E id \in {NewStorage(prefix).rootId} :
        /\ id \in DOMAIN db
        /\ db' = [k \in DOMAIN db \ {id} |-> db[k]]
        /\ last' = Last("ForeignDel", 0, Nil, NilNode, Nil, "none", NoErr, NilAddr, 0, TRUE)
        /\ UNCHANGED <<storage, heap, rootLog, putLog>>

NextShared ==
    \/ \E h \in Handles, out \in GetOutcomes : Get(h, OneKey, out)
    \/ \E h \in Handles : Put(h, OneKey, LeafNode, "ok")
    \/ \E h \in Handles, out \in GetOutcomes : GetRoot(h, out)
    \/ \E h \in Handles, out \in SetOutcomes : SetRoot(h, Hash(1), out)
    \/ \E p \in Prefixes, v \in ForeignRootValues : ForeignSetRoot(p, v)
    \/ \E p \in Prefixes : ForeignDelRoot(p)

SpecShared == Init /\ [][NextShared]_vars

(* C17: a GetRoot on a handle whose cache holds a root makes no store call   *)
(* and returns the cached root without error, whether the store is reachable *)
(* or not and whatever the root key holds; and every operation makes at most *)
(* one store call.                                                           *)
C17_Step ==
    /\ (last'.op = "GetRoot" /\ storage[last'.h].currentRoot # NilAddr) =>
          /\ last'.calls = 0
          /\ last'.err = NoErr
          /\ last'.hash = CachedRoot(storage[last'.h], heap)
          /\ db' = db
    /\ last'.op \in {"Get", "Put", "GetRoot", "SetRoot"} => last'.calls <= 1

C17_CacheHitNoStoreAccess == [][C17_Step]_vars

(* GetRoot answered from the cache while the store was unreachable and the   *)
(* root key, once written, is gone                                           *)
C17_Witness ==
    /\ last.op = "GetRoot" /\ last.out = "error" /\ last.err = NoErr /\ last.calls = 0
    /\ LogOf(last.h).stored # Nil
    /\ storage[last.h].rootId \notin DOMAIN db
    /\ last.hash = CachedRoot(storage[last.h], heap)

(* the root key of handle h holds a hex string *)
RootReadable(h, store) ==
    /\ storage[h].rootId \in DOMAIN store
    /\ DecodeString(store[storage[h].rootId]).err = NoErr

(* C19: a GetRoot that fails, with NotFound, with the client's error or on   *)
(* a stored value that is no hex string, was made on an empty cache and      *)
(* leaves it empty; an empty cache stays empty until the handle's own        *)
(* SetRoot or successful GetRoot; and every GetRoot on an empty cache reads  *)
(* the store, so that it returns the root the store holds at that moment,    *)
(* whichever handle persisted it, and fills the cache with it.               *)
C19_Step ==
    /\ (last'.op = "GetRoot" /\ last'.err # NoErr) =>
          /\ last'.calls = 1 /\ last'.hash = Nil /\ last'.ret = NilAddr
          /\ storage[last'.h].currentRoot = NilAddr
          /\ storage'[last'.h].currentRoot = NilAddr
          /\ last'.err = IF last'.out = "error" THEN ErrClient
                         ELSE IF storage[last'.h].rootId \notin DOMAIN db THEN ErrNotFound
                         ELSE Errorf("corrupt root hex")
    /\ \A g \in Handles :
          (storage[g].currentRoot = NilAddr /\ storage'[g].currentRoot # NilAddr) =>
              /\ last'.h = g
              /\ last'.op = "SetRoot" \/ (last'.op = "GetRoot" /\ last'.err = NoErr)
    /\ (last'.op = "GetRoot" /\ storage[last'.h].currentRoot = NilAddr) =>
          /\ last'.calls = 1
          /\ (last'.out = "reply" /\ RootReadable(last'.h, db)) =>
                /\ last'.err = NoErr
                /\ EncodeToString(last'.hash) = db[storage[last'.h].rootId]
                /\ CachedRoot(storage'[last'.h], heap') = last'.hash

C19_FailedGetRootLeavesCacheEmpty == [][C19_Step]_vars

(* GetRoot failed on a root key that holds no hex string, after a SetRoot    *)
(* had persisted a root, and the cache of its handle is empty                *)
C19_Witness ==
    /\ last.op = "GetRoot" /\ last.err = Errorf("corrupt root hex")
    /\ storage[last.h].currentRoot = NilAddr
    /\ LogOf(last.h).stored # Nil
    /\ \E g \in Handles : storage[g].currentRoot # NilAddr

----------------------------------------------------------------------------
(* One handle as the only writer of its prefix, no failing store call *)

(* New ends the lifetime of the handle and starts that of a fresh one *)
NextSolo ==
    \/ \E p \in Prefixes : NewMerkleRedisStorage(Writer, p)
    \/ \E key \in Keys : Get(Writer, key, "reply")
    \/ \E key \in Keys, node \in Nodes : Put(Writer, key, node, "ok")
    \/ GetRoot(Writer, "reply")
    \/ \E hash \in Roots : SetRoot(Writer, hash, "ok")

SpecSolo == Init /\ [][NextSolo]_vars

(* a populated cached root of the writer equals the root value the store    *)
(* holds                                                                     *)
CacheEqualsStore ==
    storage[Writer].currentRoot # NilAddr =>
        /\ storage[Writer].rootId \in DOMAIN db
        /\ db[storage[Writer].rootId] = EncodeToString(CachedRoot(storage[Writer], heap))

(* C18: with one handle as the only writer of its prefix and no failing      *)
(* store call, a populated cached root equals the root value the store holds *)
(* before and after every step, and once populated the cache of the handle   *)
(* is never empty again while the handle lives.                              *)
C18_Step ==
    /\ CacheEqualsStore
    /\ CacheEqualsStore'
    /\ (storage[Writer].currentRoot # NilAddr /\ last'.op # "New") =>
          storage'[Writer].currentRoot # NilAddr

C18_CacheFollowsStore == [][C18_Step]_vars

(* a second SetRoot has replaced the root in the store and in the cache *)
C18_Witness ==
    /\ last.op = "SetRoot" /\ last.replaced
    /\ storage[Writer].currentRoot # NilAddr
    /\ CachedRoot(storage[Writer], heap) = last.hash
    /\ db[storage[Writer].rootId] = EncodeToString(last.hash)

----------------------------------------------------------------------------
(* Handles of different prefixes on one store *)

(* two more prefixes, one extending the other with an underscore *)
IsolationPrefixes == {Str("p"), Str("p_")}

AllPrefixes == Prefixes \cup IsolationPrefixes

(* handle 1 is constructed with prefix "p" and handle 2 with prefix "p_" *)
InitKeys ==
    /\ rootLog = [id \in {NewStorage(p).rootId : p \in AllPrefixes} |-> NoRootLog]
    /\ putLog = {}
    /\ db = [k \in {} |-> <<>>]
    /\ storage \in {st \in [Handles -> {NewStorage(p) : p \in AllPrefixes}] :
                        /\ st[1] = NewStorage(Str("p"))
                        /\ st[2] = NewStorage(Str("p_"))
                        /\ \A h \in Handles \ {1, 2} : st[h] \in {NewStorage(p) : p \in Prefixes}}
    /\ heap = [a \in Addrs |-> ZeroHash]
    /\ last = Last("init", 0, Nil, NilNode, Nil, "none", NoErr, NilAddr, 0, FALSE)

TwoHandles == {1, 2}

NextKeys ==
    \/ \E h \in TwoHandles, key \in {<<>>, OneKey}, out \in SetOutcomes :
            Put(h, key, LeafNode, out)
    \/ \E h \in TwoHandles, out \in SetOutcomes : SetRoot(h, Hash(1), out)

SpecKeys == InitKeys /\ [][NextKeys]_vars

(* what Get of a content key and GetRoot return on a handle constructed      *)
(* fresh for a prefix                                                        *)
FreshGet(prefix, key, store) == GetResult(NewStorage(prefix), store, key, "reply")

FreshGetRoot(prefix, store) ==
    LET res == redisGet(store, NewStorage(prefix).rootId, "reply")
    IN  IF res.err = RedisNil THEN [hash |-> Nil, err |-> ErrNotFound]
        ELSE IF DecodeString(res.val).err # NoErr
        THEN [hash |-> Nil, err |-> Errorf("corrupt root hex")]
        ELSE [hash |-> copy(ZeroHash, 0, DecodeString(res.val).d), err |-> NoErr]

(* the keys of the store that differ between two states of it *)
Changed(before, after) ==
    {k \in DOMAIN before \cup DOMAIN after :
        k \notin DOMAIN before \/ k \notin DOMAIN after \/ before[k] # after[k]}

(* the read of a storage key is answered alike before and after the step *)
SameRead(id) == redisGet(db', id, "reply") = redisGet(db, id, "reply")

PrefixOf(s) == CHOOSE p \in AllPrefixes : NewStorage(p).rootId = s.rootId

(* C20: Put changes at most the node key of its own prefix and content key,  *)
(* which is no root key; SetRoot changes at most the root key of its own     *)
(* prefix, which is no node key; and no Put or SetRoot on a handle of one    *)
(* prefix changes what Get of any content key or GetRoot returns on a fresh  *)
(* handle of another prefix, one that extends it with an underscore          *)
(* included.                                                                 *)
C20_Step ==
    /\ last'.op = "Put" =>
          /\ Changed(db, db') \subseteq {getRedisNodeIdForMerkleKey(storage[last'.h], last'.key)}
          /\ Changed(db, db') \cap RootIds = {}
    /\ last'.op = "SetRoot" =>
          /\ Changed(db, db') \subseteq {storage[last'.h].rootId}
          /\ \A p \in AllPrefixes, k \in Keys :
                getRedisNodeIdForMerkleKey(NewStorage(p), k) \notin Changed(db, db')
    /\ last'.op \in {"Put", "SetRoot"} =>
          \A q \in AllPrefixes \ {PrefixOf(storage[last'.h])} :
              /\ SameRead(NewStorage(q).rootId)
                    \/ FreshGetRoot(q, db') = FreshGetRoot(q, db)
              /\ \A k \in Keys :
                    SameRead(getRedisNodeIdForMerkleKey(NewStorage(q), k))
                        \/ FreshGet(q, k, db') = FreshGet(q, k, db)

C20_KeysIsolated == [][C20_Step]_vars

(* a handle of prefix "p_" has put the empty content key while the store     *)
(* holds a node and a root of prefix "p"                                     *)
C20_Witness ==
    /\ last.op = "Put" /\ last.key = <<>>
    /\ PrefixOf(storage[last.h]) = Str("p_")
    /\ NewStorage(Str("p")).rootId \in DOMAIN db
    /\ \E k \in Keys : getRedisNodeIdForMerkleKey(NewStorage(Str("p")), k) \in DOMAIN db
    /\ FreshGetRoot(Str("p_"), db).err = ErrNotFound

====
